---- MODULE Spec2Model ----
(***************************************************************************)
(* A model of ikfkSwitch.py: the hierarchy walk get_hierarchy, the helper  *)
(* add_attribute, and the blend wiring done by IKFKSwitch (constructor,    *)
(* make_connections, attach) as driven by the panel action Window.foo.     *)
(*                                                                         *)
(* The host scene is modelled by what the script reads and writes of it:   *)
(* the ordered parent list of every DAG node, the set of attribute         *)
(* connections, the user-defined attributes of a node.  A host call that   *)
(* can raise is a nondeterministic choice between its effect and a raise.  *)
(***************************************************************************)
EXTENDS Integers, Sequences, FiniteSets, TLC

VARIABLES
    \* ---- get_hierarchy
    parents,      \* scene graph: node -> ordered list of its parents
    start, end,   \* the arguments of get_hierarchy
    hierarchy,    \* the deque being built
    current,      \* the walk's position
    hpc,          \* position in get_hierarchy
    \* ---- add_attribute
    userAttrs,    \* set of <<node, attr>>: user-defined attributes in the scene
    attrConns,    \* set of <<node, attr>>: attributes that have connections
    lastAdd,      \* <<node, attr, case>> of the last add_attribute call, or <<>>
    \* ---- Window.foo / IKFKSwitch
    pc,           \* position in Window.foo (constructor, make_connections, attach)
    name,         \* self.name.text()
    inputs,       \* self.inputs = [sourceA, sourceB]
    output,       \* self.output
    controllers,  \* the controllers handed to attach
    blendNodes,   \* self.blendNodes
    created,      \* names of the pairBlend nodes created, by node id
    conns,        \* set of <<source plug, destination plug>>
    level,        \* index of the zip iteration (1-based)
    step,         \* which of the six connectAttr calls of the iteration is next
    failedLevel,  \* level at which make_connections raised, 0 when it did not
    printed,      \* messages printed by the constructor's except clause
    locator,      \* name of the container locator, <<>> before it exists
    blendAttr,    \* the shape's blend attribute, <<>> before it exists
    shapeVisible, \* shape.visibility
    shapeParents, \* ordered parents of the locator's shape
    wi            \* loop index of attach's two loops

hvars == <<parents, start, end, hierarchy, current, hpc>>
avars == <<userAttrs, attrConns, lastAdd>>
svars == <<pc, name, inputs, output, controllers, blendNodes, created, conns,
           level, step, failedLevel, printed, locator, blendAttr, shapeVisible,
           shapeParents, wi>>
vars == <<hvars, avars, svars>>

\* ------------------------------------------------------------------ bounds
NumNodes == 4
MaxParents == 2
MaxLen == 2

\* ----------------------------------------------------------- small helpers
Range(s) == {s[k] : k \in 1..Len(s)}

Min(a, b) == IF a <= b THEN a ELSE b

Last(s) == s[Len(s)]

\* sequences over S of length at most n
SeqsUpTo(S, n) == UNION {[1..k -> S] : k \in 0..n}

\* sequences without repetition
Injective(s) == \A p, q \in 1..Len(s) : p /= q => s[p] /= s[q]

\* =========================================================================
\* get_hierarchy(start, end)
\* =========================================================================
HNodes == 1..NumNodes

\* node.listRelatives(parent=True): the ordered list of the node's parents
listParents(n) == parents[n]

\* the children of n in the scene graph
Children(n) == {m \in HNodes : n \in Range(parents[m])}

RECURSIVE Below(_, _)
Below(frontier, acc) ==
    LET new == (UNION {Children(n) : n \in frontier}) \ acc
    IN  IF new = {} THEN acc ELSE Below(new, acc \cup new)

\* mutant: the start node counted among its own descendants
allDescendentsWithSelf(n) == Below({n}, {}) \cup {n}

\* node.listRelatives(allDescendents=True)
allDescendents(n) == Below({n}, {})

\* the parent lists node n can have: ordered, without repetition, of nodes
\* with a smaller index (so the graph is acyclic); more than one parent is
\* an instanced node, as pm.parent(..., add=True) makes at lines 184-189
ParentLists(n) == {s \in SeqsUpTo(1..(n - 1), MaxParents) : Injective(s)}

RECURSIVE GraphsOn(_)
GraphsOn(n) ==
    IF n = 0 THEN {<<>>}
    ELSE {Append(g, s) : g \in GraphsOn(n - 1), s \in ParentLists(n)}

SceneGraphs == GraphsOn(NumNodes)

InitHierarchy ==
    /\ parents \in SceneGraphs
    /\ start \in HNodes
    /\ end \in HNodes
    /\ hierarchy = <<>>
    /\ current = 0
    /\ hpc = "assert"

\* line 36: assert end in start.listRelatives(allDescendents=True)
\* lines 38-39: hierarchy = deque([end]); current = end
gh_assert ==
    /\ hpc = "assert"
    /\ IF end \in allDescendents(start)
       THEN /\ hierarchy' = <<end>>
            /\ current' = end
            /\ hpc' = "walk"
       ELSE /\ hpc' = "AssertionError"
            /\ UNCHANGED <<hierarchy, current>>
    /\ UNCHANGED <<parents, start, end>>
    /\ UNCHANGED <<avars, svars>>

\* lines 41-43: one iteration of the while loop; [0] of an empty list raises
gh_walk ==
    /\ hpc = "walk"
    /\ current /= start
    /\ IF listParents(current) = <<>>
       THEN /\ hpc' = "IndexError"
            /\ UNCHANGED <<hierarchy, current>>
       ELSE /\ current' = listParents(current)[1]
            /\ hierarchy' = <<listParents(current)[1]>> \o hierarchy
            /\ hpc' = "walk"
    /\ UNCHANGED <<parents, start, end>>
    /\ UNCHANGED <<avars, svars>>

\* line 41 false, line 45: return hierarchy
gh_return ==
    /\ hpc = "walk"
    /\ current = start
    /\ hpc' = "returned"
    /\ UNCHANGED <<parents, start, end, hierarchy, current>>
    /\ UNCHANGED <<avars, svars>>

NextHierarchy == gh_assert \/ gh_walk \/ gh_return

\* get_hierarchy is not running
HierarchyIdle ==
    /\ parents = [n \in HNodes |-> <<>>]
    /\ start = 1
    /\ end = 1
    /\ hierarchy = <<>>
    /\ current = 0
    /\ hpc = "idle"

\* =========================================================================
\* add_attribute(node, attr)
\* =========================================================================
AttrNodes == {"ctrl1", "ctrl2"}
AttrNames == {"blend", "ikfk"}

\* node.listAttr(userDefined=True, string=attr)
listAttr(node, attr) == {p \in userAttrs : p = <<node, attr>>}

\* pm.listConnections(node.nodeName() + '.' + attr)
listConnections(node, attr) == {p \in attrConns : p = <<node, attr>>}

\* lines 106-125, the whole function
add_attribute(node, attr) ==
    /\ IF listAttr(node, attr) = {}
       THEN \* lines 111-113: pm.addAttr
            /\ userAttrs' = userAttrs \cup {<<node, attr>>}
            /\ lastAdd' = <<node, attr, "absent">>
       ELSE IF listConnections(node, attr) = {}
       THEN \* lines 118-120: pm.deleteAttr, and nothing after it
            /\ userAttrs' = userAttrs \ {<<node, attr>>}
            /\ lastAdd' = <<node, attr, "unconnected">>
       ELSE \* lines 122-125: pass
            /\ userAttrs' = userAttrs
            /\ lastAdd' = <<node, attr, "connected">>
    /\ UNCHANGED attrConns
    /\ UNCHANGED <<hvars, svars>>

call_add_attribute == \E node \in AttrNodes, attr \in AttrNames : add_attribute(node, attr)

AttrIdle ==
    /\ userAttrs = {}
    /\ attrConns = {}
    /\ lastAdd = <<>>

\* any scene: some user-defined attributes exist, some of them are connected
InitAttr ==
    /\ userAttrs \in SUBSET (AttrNodes \X AttrNames)
    /\ attrConns \in SUBSET userAttrs
    /\ lastAdd = <<>>

NextAttr == call_add_attribute

\* =========================================================================
\* Window.foo: IKFKSwitch(a, b, target), then attach(controllers, name)
\* =========================================================================
\* scene nodes are <<kind, index>>
SourceAPool == {<<"a", 1>>, <<"a", 2>>}
SourceBPool == {<<"b", 1>>, <<"b", 2>>}
TargetPool == {<<"t", 1>>, <<"t", 2>>}
Chain(kind, n) == [k \in 1..n |-> <<kind, k>>]
Names == {"", "arm"}
Shape == <<"shape", 0>>

\* node.nodeName()
nodeName(node) == node

\* '{}_blnd'.format(target.nodeName()), line 147
BlendName(target) == <<nodeName(target), "_blnd">>

\* '{}Container'.format(name), line 163
ContainerName(n) == <<n, "Container">>

\* the pairBlend node with id k
PairBlend(k) == <<"pairBlend", k>>

\* mutant: the loop stops one triple early
ZipLenShort == LET n == Min(Len(inputs[1]), Min(Len(inputs[2]), Len(output)))
               IN  IF n > 0 THEN n - 1 ELSE 0

\* zip(self.inputs[0], self.inputs[1], self.output), line 146: as many
\* triples as the shortest list has elements
ZipLen == Min(Len(inputs[1]), Min(Len(inputs[2]), Len(output)))

\* lines 149-156: the six connectAttr calls of one iteration, in order
ConnOf(k, pb, sourceA, sourceB, target) ==
    CASE k = 1 -> <<<<sourceA, "translate">>, <<pb, "inTranslate2">>>>
      [] k = 2 -> <<<<sourceB, "translate">>, <<pb, "inTranslate1">>>>
      [] k = 3 -> <<<<sourceA, "rotate">>, <<pb, "inRotate2">>>>
      [] k = 4 -> <<<<sourceB, "rotate">>, <<pb, "inRotate1">>>>
      [] k = 5 -> <<<<pb, "outTranslate">>, <<target, "translate">>>>
      [] k = 6 -> <<<<pb, "outRotate">>, <<target, "rotate">>>>

NumConnections == 6

\* the connections of iteration lv, made on pairBlend node pb
LevelConns(lv, pb) ==
    {ConnOf(k, pb, inputs[1][lv], inputs[2][lv], output[lv]) : k \in 1..NumConnections}

\* pm.connectAttr(src, dst) raises when dst already has an incoming connection
Driven(dst) == \E c \in conns : c[2] = dst

SwitchIdle ==
    /\ pc = "idle"
    /\ name = ""
    /\ inputs = <<<<>>, <<>>>>
    /\ output = <<>>
    /\ controllers = <<>>
    /\ blendNodes = <<>>
    /\ created = <<>>
    /\ conns = {}
    /\ level = 0
    /\ step = 0
    /\ failedLevel = 0
    /\ printed = <<>>
    /\ locator = <<>>
    /\ blendAttr = <<>>
    /\ shapeVisible = TRUE
    /\ shapeParents = <<>>
    /\ wi = 0

\* lines 274-282 and 131-137: foo reads the panel; with a name it constructs
\* the switch (inputs, output, empty blendNodes) and enters the try block
foo ==
    /\ pc = "idle"
    /\ \E a \in SeqsUpTo(SourceAPool, MaxLen), b \in SeqsUpTo(SourceBPool, MaxLen),
          t \in SeqsUpTo(TargetPool, MaxLen), lc \in 0..MaxLen, n \in Names :
          /\ name' = n
          /\ IF n = ""
             THEN /\ pc' = "skipped"
                  /\ UNCHANGED <<inputs, output, controllers, level>>
             ELSE /\ inputs' = <<a, b>>
                  /\ output' = t
                  /\ controllers' = Chain("c", lc)
                  /\ level' = 1
                  /\ pc' = "mc_loop"
    /\ blendNodes' = <<>>
    /\ UNCHANGED <<created, conns, step, failedLevel, printed, locator, blendAttr,
                   shapeVisible, shapeParents, wi>>
    /\ UNCHANGED <<hvars, avars>>

\* line 146: next triple of the zip, or the loop (and the constructor) ends
mc_loop ==
    /\ pc = "mc_loop"
    /\ IF level <= ZipLen THEN pc' = "mc_create" ELSE pc' = "attach_locator"
    /\ UNCHANGED <<name, inputs, output, controllers, blendNodes, created, conns,
                   level, step, failedLevel, printed, locator, blendAttr,
                   shapeVisible, shapeParents, wi>>
    /\ UNCHANGED <<hvars, avars>>

\* mutant: the new node is put in blendNodes as soon as it is created
mc_create_append ==
    /\ pc = "mc_create"
    /\ \E ok \in BOOLEAN :
          IF ok
          THEN /\ created' = Append(created, BlendName(output[level]))
               /\ blendNodes' = Append(blendNodes, PairBlend(Len(created) + 1))
               /\ step' = 1
               /\ pc' = "mc_connect"
               /\ UNCHANGED failedLevel
          ELSE /\ failedLevel' = level
               /\ pc' = "except"
               /\ UNCHANGED <<created, step, blendNodes>>
    /\ UNCHANGED <<name, inputs, output, controllers, conns, level,
                   printed, locator, blendAttr, shapeVisible, shapeParents, wi>>
    /\ UNCHANGED <<hvars, avars>>

\* line 147: pm.createNode('pairBlend', name=...), which may raise
mc_create ==
    /\ pc = "mc_create"
    /\ \E ok \in BOOLEAN :
          IF ok
          THEN /\ created' = Append(created, BlendName(output[level]))
               /\ step' = 1
               /\ pc' = "mc_connect"
               /\ UNCHANGED failedLevel
          ELSE /\ failedLevel' = level
               /\ pc' = "except"
               /\ UNCHANGED <<created, step>>
    /\ UNCHANGED <<name, inputs, output, controllers, blendNodes, conns, level,
                   printed, locator, blendAttr, shapeVisible, shapeParents, wi>>
    /\ UNCHANGED <<hvars, avars>>

\* lines 149-156: the step-th pm.connectAttr of the iteration, which may raise
mc_connect ==
    /\ pc = "mc_connect"
    /\ LET c == ConnOf(step, PairBlend(Len(created)), inputs[1][level],
                       inputs[2][level], output[level])
       IN \E ok \in BOOLEAN :
          IF ok /\ ~Driven(c[2])
          THEN /\ conns' = conns \cup {c}
               /\ IF step < NumConnections
                  THEN step' = step + 1 /\ pc' = "mc_connect"
                  ELSE step' = 0 /\ pc' = "mc_append"
               /\ UNCHANGED failedLevel
          ELSE /\ failedLevel' = level
               /\ pc' = "except"
               /\ UNCHANGED <<conns, step>>
    /\ UNCHANGED <<name, inputs, output, controllers, blendNodes, created, level,
                   printed, locator, blendAttr, shapeVisible, shapeParents, wi>>
    /\ UNCHANGED <<hvars, avars>>

\* line 158: self.blendNodes.append(pairBlend)
mc_append ==
    /\ pc = "mc_append"
    /\ blendNodes' = Append(blendNodes, PairBlend(Len(created)))
    /\ level' = level + 1
    /\ pc' = "mc_loop"
    /\ UNCHANGED <<name, inputs, output, controllers, created, conns, step,
                   failedLevel, printed, locator, blendAttr, shapeVisible,
                   shapeParents, wi>>
    /\ UNCHANGED <<hvars, avars>>

\* mutant: the except clause prints and raises again, out of foo
except_reraise ==
    /\ pc = "except"
    /\ printed' = Append(printed, "e.message")
    /\ pc' = "raised_constructor"
    /\ UNCHANGED <<name, inputs, output, controllers, blendNodes, created, conns,
                   level, step, failedLevel, locator, blendAttr, shapeVisible,
                   shapeParents, wi>>
    /\ UNCHANGED <<hvars, avars>>

\* lines 139-140: except Exception as e: print e.message; the constructor
\* returns and foo goes on to line 283
except ==
    /\ pc = "except"
    /\ printed' = Append(printed, "e.message")
    /\ pc' = "attach_locator"
    /\ UNCHANGED <<name, inputs, output, controllers, blendNodes, created, conns,
                   level, step, failedLevel, locator, blendAttr, shapeVisible,
                   shapeParents, wi>>
    /\ UNCHANGED <<hvars, avars>>

\* ------------------------------------------------------------------ attach
BlendMin == 0
BlendMax == 1
BlendDefault == 0

AttachRest == <<name, inputs, output, controllers, blendNodes, created, level,
                step, failedLevel, printed>>

\* lines 163-164: pm.spaceLocator(name='<name>Container'), locator.getShape()
attach_locator ==
    /\ pc = "attach_locator"
    /\ \E ok \in BOOLEAN :
          IF ok
          THEN /\ locator' = ContainerName(name)
               /\ shapeParents' = <<<<"locator", 0>>>>
               /\ pc' = "attach_addAttr"
          ELSE /\ pc' = "raised_attach"
               /\ UNCHANGED <<locator, shapeParents>>
    /\ UNCHANGED <<conns, blendAttr, shapeVisible, wi>>
    /\ UNCHANGED AttachRest
    /\ UNCHANGED <<hvars, avars>>

\* lines 166-174: pm.addAttr(shape, longName="blend", min, max, defaultValue)
attach_addAttr ==
    /\ pc = "attach_addAttr"
    /\ \E ok \in BOOLEAN :
          IF ok
          THEN /\ blendAttr' = <<[min |-> BlendMin, max |-> BlendMax,
                                  default |-> BlendDefault, value |-> BlendDefault]>>
               /\ pc' = "attach_visibility"
          ELSE /\ pc' = "raised_attach"
               /\ UNCHANGED blendAttr
    /\ UNCHANGED <<conns, locator, shapeParents, shapeVisible, wi>>
    /\ UNCHANGED AttachRest
    /\ UNCHANGED <<hvars, avars>>

\* line 177: shape.visibility.set(False)
attach_visibility ==
    /\ pc = "attach_visibility"
    /\ shapeVisible' = FALSE
    /\ wi' = 1
    /\ pc' = "attach_weights"
    /\ UNCHANGED <<conns, locator, shapeParents, blendAttr>>
    /\ UNCHANGED AttachRest
    /\ UNCHANGED <<hvars, avars>>

\* mutant: the loop passes over a blend node without connecting its weight
attach_weights_skip ==
    /\ pc = "attach_weights"
    /\ IF wi <= Len(blendNodes)
       THEN /\ wi' = wi + 1
            /\ pc' = "attach_weights"
       ELSE /\ wi' = 1
            /\ pc' = "attach_parent"
    /\ UNCHANGED <<conns, locator, shapeParents, blendAttr, shapeVisible>>
    /\ UNCHANGED AttachRest
    /\ UNCHANGED <<hvars, avars>>

\* lines 179-180: for node in self.blendNodes:
\*                    pm.connectAttr(shape.blend, node.weight)
attach_weights ==
    /\ pc = "attach_weights"
    /\ IF wi <= Len(blendNodes)
       THEN \E ok \in BOOLEAN :
               IF ok /\ ~Driven(<<blendNodes[wi], "weight">>)
               THEN /\ conns' = conns \cup
                                  {<<<<Shape, "blend">>, <<blendNodes[wi], "weight">>>>}
                    /\ wi' = wi + 1
                    /\ pc' = "attach_weights"
               ELSE /\ pc' = "raised_attach"
                    /\ UNCHANGED <<conns, wi>>
       ELSE /\ wi' = 1
            /\ pc' = "attach_parent"
            /\ UNCHANGED conns
    /\ UNCHANGED <<locator, shapeParents, blendAttr, shapeVisible>>
    /\ UNCHANGED AttachRest
    /\ UNCHANGED <<hvars, avars>>

\* lines 183-189: for controller in controllers:
\*                    pm.parent(shape, controller, add=True, shape=True)
attach_parent ==
    /\ pc = "attach_parent"
    /\ IF wi <= Len(controllers)
       THEN \E ok \in BOOLEAN :
               IF ok
               THEN /\ shapeParents' = Append(shapeParents, controllers[wi])
                    /\ wi' = wi + 1
                    /\ pc' = "attach_parent"
               ELSE /\ pc' = "raised_attach"
                    /\ UNCHANGED <<shapeParents, wi>>
       ELSE /\ pc' = "done"
            /\ UNCHANGED <<shapeParents, wi>>
    /\ UNCHANGED <<conns, locator, blendAttr, shapeVisible>>
    /\ UNCHANGED AttachRest
    /\ UNCHANGED <<hvars, avars>>

\* the animator sets the blend attribute, within the range line 171-172 gave it
set_blend ==
    /\ pc = "done"
    /\ \E v \in blendAttr[1].min .. blendAttr[1].max :
          /\ v /= blendAttr[1].value
          /\ blendAttr' = <<[blendAttr[1] EXCEPT !.value = v]>>
    /\ UNCHANGED <<pc, conns, locator, shapeParents, shapeVisible, wi>>
    /\ UNCHANGED AttachRest
    /\ UNCHANGED <<hvars, avars>>

\* --------------------------------------------- evaluation of the blend graph
\* the plug driving dst
Source(dst) == (CHOOSE c \in conns : c[2] = dst)[1]

\* the pairBlend node: weight 0 outputs input 1, weight 1 outputs input 2
pairBlendOut(in1, in2, w) == IF w = 0 THEN in1 ELSE in2

\* the value arriving at a driven target plug; a source plug's value is
\* represented by the plug itself
TargetValue(target, attr) ==
    LET pb  == Source(<<target, attr>>)[1]
        in1 == IF attr = "translate" THEN "inTranslate1" ELSE "inRotate1"
        in2 == IF attr = "translate" THEN "inTranslate2" ELSE "inRotate2"
    IN  pairBlendOut(Source(<<pb, in1>>), Source(<<pb, in2>>), blendAttr[1].value)

\* ------------------------------------------------------------ specifications
Init == HierarchyIdle /\ AttrIdle /\ SwitchIdle

Next ==
    \/ foo
    \/ mc_loop
    \/ mc_create
    \/ mc_connect
    \/ mc_append
    \/ except
    \/ attach_locator
    \/ attach_addAttr
    \/ attach_visibility
    \/ attach_weights
    \/ attach_parent
    \/ set_blend

Spec == Init /\ [][Next]_vars

InitH == InitHierarchy /\ AttrIdle /\ SwitchIdle

SpecHierarchy == InitH /\ [][NextHierarchy]_vars

InitA == HierarchyIdle /\ InitAttr /\ SwitchIdle

SpecAttr == InitA /\ [][NextAttr]_vars

\* =========================================================================
\* Properties
\* =========================================================================
\* the nodes above n in the scene graph, by parent links of any instance
RECURSIVE Above(_, _)
Above(frontier, acc) ==
    LET new == (UNION {Range(parents[n]) : n \in frontier}) \ acc
    IN  IF new = {} THEN acc ELSE Above(new, acc \cup new)

IsDescendant(anc, n) == anc \in Above({n}, {})

Finished == hpc \in {"returned", "AssertionError", "IndexError"}

IsChain(h) ==
    /\ Len(h) >= 1
    /\ h[1] = start
    /\ Last(h) = end
    /\ \A k \in 1..(Len(h) - 1) : h[k] \in Range(parents[h[k + 1]])
    /\ Injective(h)

\* C1: whenever end is a descendant of start, get_hierarchy(start, end)
\* returns, and what it returns is a chain from start to end in which each
\* element is a parent of the next and no node is repeated.
C1_ReturnsChain ==
    (IsDescendant(start, end) /\ Finished) => (hpc = "returned" /\ IsChain(hierarchy))

\* C2: whenever end is not a descendant of start (start = end included),
\* get_hierarchy stops at its assertion: no parent link is walked and no
\* sequence is built or returned.
C2_AssertRejects ==
    (start = end \/ ~IsDescendant(start, end)) =>
        /\ hpc \in {"assert", "AssertionError"}
        /\ hierarchy = <<>>
        /\ current = 0

C2_Witness == hpc = "AssertionError" /\ start = end

\* C8: whenever the assertion passes, the walk never steps past start to a
\* node without a parent and never runs longer than the scene has nodes,
\* also when nodes are instanced under several parents.
C8_WalkReachesStart ==
    IsDescendant(start, end) =>
        /\ hpc /= "IndexError"
        /\ Len(hierarchy) <= NumNodes

\* C7: after add_attribute(node, attr) returns, node has the user-defined
\* attribute attr, whichever of the three cases it started from, and a
\* connected attribute is still connected.
C7_AttributePresent ==
    lastAdd /= <<>> =>
        /\ <<lastAdd[1], lastAdd[2]>> \in userAttrs
        /\ (lastAdd[3] = "connected" => <<lastAdd[1], lastAdd[2]>> \in attrConns)

\* ------------------------------------------------------------ the switch
InMakeConnections == pc \in {"mc_loop", "mc_create", "mc_connect", "mc_append"}

AfterConstructor ==
    pc \in {"attach_locator", "attach_addAttr", "attach_visibility",
            "attach_weights", "attach_parent", "done", "raised_attach"}

ShortestLen ==
    CHOOSE n \in {Len(inputs[1]), Len(inputs[2]), Len(output)} :
        n <= Len(inputs[1]) /\ n <= Len(inputs[2]) /\ n <= Len(output)

\* the connections among joints and blend nodes (the weight inputs aside)
WiringConns == {c \in conns : c[2][2] /= "weight"}

\* C3: when nothing raised, make_connections has created exactly one blend
\* node for each index below the length of the shortest of the three lists,
\* named after the target of that index, appended to blendNodes in index
\* order; the connections made are those of these indices and no others, so
\* the elements of a longer list past the shortest length have none.
C3_OneBlendPerTriple ==
    (failedLevel = 0 /\ AfterConstructor) =>
        /\ Len(created) = ShortestLen
        /\ Len(blendNodes) = ShortestLen
        /\ \A i \in 1..Len(blendNodes) :
              /\ blendNodes[i] = PairBlend(i)
              /\ created[i] = <<output[i], "_blnd">>
        /\ WiringConns = UNION {LevelConns(i, PairBlend(i)) : i \in 1..ShortestLen}

C3_Witness ==
    /\ failedLevel = 0
    /\ pc = "done"
    /\ Len(blendNodes) = 1
    /\ Len(inputs[1]) = 2
    /\ Len(output) = 2

\* C4: after construction and attach the blend attribute has minimum 0,
\* maximum 1 and default 0; with blend at 0 every wired target's translate
\* and rotate are those of the sourceA node of its index, with blend at 1
\* those of the sourceB node.
C4_ZeroIsSourceA ==
    pc = "done" =>
        /\ blendAttr[1].min = 0 /\ blendAttr[1].max = 1 /\ blendAttr[1].default = 0
        /\ \A i \in 1..Len(blendNodes), attr \in {"translate", "rotate"} :
              /\ blendAttr[1].value = 0 =>
                    TargetValue(output[i], attr) = <<inputs[1][i], attr>>
              /\ blendAttr[1].value = 1 =>
                    TargetValue(output[i], attr) = <<inputs[2][i], attr>>

\* C5: when attach has completed, the container locator is named
\* <name>Container, the weight of every node in blendNodes is driven by the
\* blend attribute of its shape and by nothing else, and the shape is
\* parented under every controller.
C5_OneBlendDrivesAll ==
    pc = "done" =>
        /\ locator = <<name, "Container">>
        /\ blendAttr /= <<>>
        /\ \A i \in 1..Len(blendNodes) :
              /\ <<<<Shape, "blend">>, <<blendNodes[i], "weight">>>> \in conns
              /\ \A c \in conns :
                    c[2] = <<blendNodes[i], "weight">> => c[1] = <<Shape, "blend">>
        /\ \A k \in 1..Len(controllers) : controllers[k] \in Range(shapeParents)

C5_Witness ==
    /\ pc = "done"
    /\ Len(blendNodes) = 2
    /\ Len(controllers) = 2

\* C6: once make_connections has raised, control is in the except clause or
\* in (or past) attach, never out of foo through the constructor; the message
\* has been printed exactly once, no further level was started, and attach
\* creates the container locator as it does after a clean construction.
C6_ExceptionContained ==
    failedLevel /= 0 =>
        /\ pc = "except" \/ AfterConstructor
        /\ pc = "except" => printed = <<>>
        /\ AfterConstructor => printed = <<"e.message">>
        /\ level = failedLevel
        /\ Len(created) <= failedLevel
        /\ pc \in {"attach_addAttr", "attach_visibility", "attach_weights",
                   "attach_parent", "done"} => locator = <<name, "Container">>

C6_Witness ==
    /\ failedLevel = 2
    /\ pc = "done"
    /\ locator = <<name, "Container">>

\* all six connections of index i are in place on node pb
FullyWired(i, pb) == LevelConns(i, pb) \subseteq conns

\* C9: at every point, every node in blendNodes is the node of its index and
\* has all six connections; while the loop runs blendNodes holds the nodes
\* of the finished levels; after a raise at level k it holds exactly the
\* nodes of the levels before k, and the node created for level k (when the
\* raise came after its creation) is still in the scene with the connections
\* made before the raise and none of the later ones, is not in blendNodes,
\* and has no weight connection, attach included.
C9_BlendNodesFullyWired ==
    /\ \A i \in 1..Len(blendNodes) :
          blendNodes[i] = PairBlend(i) /\ FullyWired(i, blendNodes[i])
    /\ InMakeConnections => Len(blendNodes) = level - 1
    /\ failedLevel /= 0 =>
          /\ Len(blendNodes) = failedLevel - 1
          /\ Len(created) \in {failedLevel - 1, failedLevel}
          /\ Len(created) = failedLevel =>
                LET pb == PairBlend(failedLevel)
                    made(k) == ConnOf(k, pb, inputs[1][failedLevel],
                                      inputs[2][failedLevel], output[failedLevel])
                IN  /\ step \in 1..NumConnections
                    /\ \A k \in 1..(step - 1) : made(k) \in conns
                    /\ \A k \in step..NumConnections : made(k) \notin conns
                    /\ pb \notin Range(blendNodes)
                    /\ \A c \in conns : c[2] /= <<pb, "weight">>

C9_Witness ==
    /\ pc = "done"
    /\ failedLevel = 2
    /\ Len(created) = 2
    /\ step = 3
    /\ Len(blendNodes) = 1
====
